---- MODULE Spec2Model ----
(***************************************************************************)
(* Model of package queueimpl3 (queueimpl3.go): an unbounded FIFO queue    *)
(* that stores its values in fixed sized slices linked in a singly linked  *)
(* list.                                                                   *)
(*                                                                         *)
(* The Go heap is the sequence `heap`: node k is heap[k], a *Node is an    *)
(* index into it and the nil pointer is NilNode.  Nodes are never removed  *)
(* from `heap`, so an unreachable node stays observable.  A run time panic *)
(* (nil dereference, index out of range) is an outcome of the operation:   *)
(* it is recorded in `ret` and leaves the memory as the statements before  *)
(* the faulting one left it.                                               *)
(***************************************************************************)
EXTENDS Integers, Sequences, FiniteSets

\* Bounds of the model.  MaxPush bounds the Push calls of a run and MaxNodes
\* the nodes it allocates (one per Init, one per slice filled).
\* internalSliceSize is 128 in the source (queueimpl3.go:29); the model
\* scales the slice size down so that slice boundaries are crossed.
internalSliceSize == 2
NumValues == 2
MaxPush == 4
MaxNodes == 3

\* queueimpl3.go:32, kept as the source keeps it: one less than the size.
internalSliceLastPosition == internalSliceSize - 1

NilNode == 0
NilVal == 0
Values == 1..NumValues

VARIABLES
    heap,    \* the allocated Nodes: heap[k] = [v |-> slice, n |-> next]
    q,       \* the Queueimpl3 struct: [head, tail, pos, len]
    ret,     \* outcome of the last call: [op, val, ok, panic]
    pushed,  \* history: values passed to Push since the last Init
    popped,  \* history: values returned by Pop with true since the last Init
    S,       \* reference queue: a plain sequence run side by side
    sret,    \* outcome of the last Front/Pop on the reference queue
    phase,   \* history: "fill", "drain" or "other" (see DoPush, DoPop)
    retired, \* history: the nodes Pop has advanced head past
    nalloc   \* history: nodes allocated by the last Init and the Pushes since

vars == <<heap, q, ret, pushed, popped, S, sret, phase, retired, nalloc>>

----------------------------------------------------------------------------
\* The functions of the package, as operators on (heap, queue struct).

\* newNode: a node with an empty slice (capacity internalSliceSize) and no
\* next node, allocated at a fresh address.
newNode(h) == Append(h, [v |-> <<>>, n |-> NilNode])

Outcome(h, qq, val, ok) ==
    [heap |-> h, q |-> qq, val |-> val, ok |-> ok, panic |-> FALSE]

Panic(h, qq) ==
    [heap |-> h, q |-> qq, val |-> NilVal, ok |-> FALSE, panic |-> TRUE]

\* q.head.v[q.pos] can be evaluated: head is not nil and pos is in range.
\* Go slices are indexed from 0, TLA+ sequences from 1.
CanIndexHead(h, qq) ==
    /\ qq.head # NilNode
    /\ qq.pos >= 0
    /\ qq.pos < Len(h[qq.head].v)

\* fnInit without line 72 (q.pos = 0).
fnInit_KeepPos(h, qq) ==
    LET h1 == newNode(h)
        n  == Len(h1)
    IN  Outcome(h1, [head |-> n, tail |-> n, pos |-> qq.pos, len |-> 0],
                NilVal, TRUE)

fnInit(h, qq) ==
    LET h1 == newNode(h)
        n  == Len(h1)
    IN  Outcome(h1, [head |-> n, tail |-> n, pos |-> 0, len |-> 0],
                NilVal, TRUE)

\* New: new(Queueimpl3).Init() on a program that has allocated nothing yet.
New == fnInit(<<>>, [head |-> NilNode, tail |-> NilNode, pos |-> 0, len |-> 0])

fnLen(h, qq) == Outcome(h, qq, qq.len, TRUE)

fnFront(h, qq) ==
    IF qq.len = 0 THEN Outcome(h, qq, NilVal, FALSE)
    ELSE IF ~CanIndexHead(h, qq) THEN Panic(h, qq)
    ELSE Outcome(h, qq, h[qq.head].v[qq.pos + 1], TRUE)

\* fnPush without line 103 (q.len++).
fnPush_NoCount(h, qq, val) ==
    IF qq.tail = NilNode THEN Panic(h, qq)
    ELSE
      LET full == Len(h[qq.tail].v) >= internalSliceSize
          h1   == IF full
                  THEN [newNode(h) EXCEPT ![qq.tail].n = Len(h) + 1]
                  ELSE h
          t    == IF full THEN Len(h) + 1 ELSE qq.tail
          h2   == [h1 EXCEPT ![t].v = Append(@, val)]
      IN  Outcome(h2, [qq EXCEPT !.tail = t], NilVal, TRUE)

\* fnPush with line 96 testing len(q.tail.v) > internalSliceSize.
fnPush_LateAlloc(h, qq, val) ==
    IF qq.tail = NilNode THEN Panic(h, qq)
    ELSE
      LET full == Len(h[qq.tail].v) > internalSliceSize
          h1   == IF full
                  THEN [newNode(h) EXCEPT ![qq.tail].n = Len(h) + 1]
                  ELSE h
          t    == IF full THEN Len(h) + 1 ELSE qq.tail
          h2   == [h1 EXCEPT ![t].v = Append(@, val)]
      IN  Outcome(h2, [qq EXCEPT !.tail = t, !.len = @ + 1], NilVal, TRUE)

\* fnPush that also assigns the new node to q.head at line 99.
fnPush_MoveHead(h, qq, val) ==
    IF qq.tail = NilNode THEN Panic(h, qq)
    ELSE
      LET full == Len(h[qq.tail].v) >= internalSliceSize
          h1   == IF full
                  THEN [newNode(h) EXCEPT ![qq.tail].n = Len(h) + 1]
                  ELSE h
          t    == IF full THEN Len(h) + 1 ELSE qq.tail
          h2   == [h1 EXCEPT ![t].v = Append(@, val)]
      IN  Outcome(h2,
                  [qq EXCEPT !.tail = t, !.len = @ + 1,
                             !.head = IF full THEN t ELSE @],
                  NilVal, TRUE)

fnPush(h, qq, val) ==
    IF qq.tail = NilNode THEN Panic(h, qq)
    ELSE
      LET full == Len(h[qq.tail].v) >= internalSliceSize
          h1   == IF full
                  THEN [newNode(h) EXCEPT ![qq.tail].n = Len(h) + 1]
                  ELSE h
          t    == IF full THEN Len(h) + 1 ELSE qq.tail
          h2   == [h1 EXCEPT ![t].v = Append(@, val)]
      IN  Outcome(h2, [qq EXCEPT !.tail = t, !.len = @ + 1], NilVal, TRUE)

\* The part of fnPop after the emptiness test, with the last position and
\* the value written over the popped slot as parameters.
PopVariant(h, qq, last, cleared) ==
    IF ~CanIndexHead(h, qq) THEN Panic(h, qq)
    ELSE
      LET val == h[qq.head].v[qq.pos + 1]
          h1  == [h EXCEPT ![qq.head].v[qq.pos + 1] = cleared]
      IN  IF qq.pos >= last
          THEN Outcome([h1 EXCEPT ![qq.head].n = NilNode],
                       [qq EXCEPT !.len = @ - 1,
                                  !.head = h1[qq.head].n,
                                  !.pos = 0],
                       val, TRUE)
          ELSE Outcome(h1,
                       [qq EXCEPT !.len = @ - 1, !.pos = @ + 1],
                       val, TRUE)

\* fnPop with line 118 testing q.pos > internalSliceLastPosition.
fnPop_LateAdvance(h, qq) ==
    IF qq.len = 0 THEN Outcome(h, qq, NilVal, FALSE)
    ELSE PopVariant(h, qq, internalSliceLastPosition + 1, NilVal)

\* fnPop with line 110 testing q.len < 0.
fnPop_NoEmptyCheck(h, qq) ==
    IF qq.len < 0 THEN Outcome(h, qq, NilVal, FALSE)
    ELSE PopVariant(h, qq, internalSliceLastPosition, NilVal)

\* fnPop without line 115 (q.head.v[q.pos] = nil).
fnPop_NoClear(h, qq) ==
    IF qq.len = 0 THEN Outcome(h, qq, NilVal, FALSE)
    ELSE IF ~CanIndexHead(h, qq) THEN Panic(h, qq)
    ELSE PopVariant(h, qq, internalSliceLastPosition,
                    h[qq.head].v[qq.pos + 1])

\* fnPop without line 120 (q.head.n = nil).
fnPop_KeepNext(h, qq) ==
    IF qq.len = 0 THEN Outcome(h, qq, NilVal, FALSE)
    ELSE IF ~CanIndexHead(h, qq) THEN Panic(h, qq)
    ELSE
      LET r == PopVariant(h, qq, internalSliceLastPosition, NilVal)
      IN  [r EXCEPT !.heap[qq.head].n = h[qq.head].n]

\* fnPop without line 116 (q.len--).
fnPop_NoCount(h, qq) ==
    IF qq.len = 0 THEN Outcome(h, qq, NilVal, FALSE)
    ELSE IF ~CanIndexHead(h, qq) THEN Panic(h, qq)
    ELSE
      LET r == PopVariant(h, qq, internalSliceLastPosition, NilVal)
      IN  [r EXCEPT !.q.len = qq.len]

fnPop(h, qq) ==
    IF qq.len = 0 THEN Outcome(h, qq, NilVal, FALSE)
    ELSE IF ~CanIndexHead(h, qq) THEN Panic(h, qq)
    ELSE
      LET val == h[qq.head].v[qq.pos + 1]
          h1  == [h EXCEPT ![qq.head].v[qq.pos + 1] = NilVal]
      IN  IF qq.pos >= internalSliceLastPosition
          THEN Outcome([h1 EXCEPT ![qq.head].n = NilNode],
                       [qq EXCEPT !.len = @ - 1,
                                  !.head = h1[qq.head].n,
                                  !.pos = 0],
                       val, TRUE)
          ELSE Outcome(h1,
                       [qq EXCEPT !.len = @ - 1, !.pos = @ + 1],
                       val, TRUE)

----------------------------------------------------------------------------
\* The calls a client can make.

\* The nodes linked from node n through the n fields, in order.
RECURSIVE ChainFrom(_, _, _)
ChainFrom(h, n, fuel) ==
    IF n = NilNode \/ fuel = 0 THEN <<>>
    ELSE <<n>> \o ChainFrom(h, h[n].n, fuel - 1)

Chain(h, n) == ChainFrom(h, n, Len(h))

ChainSet(h, n) == {Chain(h, n)[i] : i \in 1..Len(Chain(h, n))}

\* The nodes the queue struct refers to, directly or through n links.
Reachable(h, qq) == ChainSet(h, qq.head) \cup ChainSet(h, qq.tail)

\* Number of slots ever appended to the slices of the allocated nodes, which
\* is the number of Push calls made so far by the program.
RECURSIVE SlotsUpTo(_, _)
SlotsUpTo(h, k) == IF k = 0 THEN 0 ELSE Len(h[k].v) + SlotsUpTo(h, k - 1)

TotalSlots(h) == SlotsUpTo(h, Len(h))

Result(op, r) == [op |-> op, val |-> r.val, ok |-> r.ok, panic |-> r.panic]

Init ==
    /\ heap = New.heap
    /\ q = New.q
    /\ ret = Result("New", New)
    /\ pushed = <<>>
    /\ popped = <<>>
    /\ S = <<>>
    /\ sret = [val |-> NilVal, ok |-> FALSE]
    /\ phase = "fill"
    /\ retired = {}
    /\ nalloc = 1

DoInit ==
    /\ Len(heap) < MaxNodes
    /\ LET r == fnInit(heap, q) IN
         /\ heap' = r.heap
         /\ q' = r.q
         /\ ret' = Result("Init", r)
    /\ pushed' = <<>>
    /\ popped' = <<>>
    /\ S' = <<>>
    /\ sret' = [val |-> NilVal, ok |-> FALSE]
    /\ phase' = "fill"
    /\ nalloc' = 1
    /\ UNCHANGED retired

DoLen ==
    /\ LET r == fnLen(heap, q) IN
         /\ heap' = r.heap
         /\ q' = r.q
         /\ ret' = Result("Len", r)
    /\ UNCHANGED <<pushed, popped, S, sret, phase, retired, nalloc>>

DoFront ==
    /\ LET r == fnFront(heap, q) IN
         /\ heap' = r.heap
         /\ q' = r.q
         /\ ret' = Result("Front", r)
    /\ sret' = IF S = <<>> THEN [val |-> NilVal, ok |-> FALSE]
               ELSE [val |-> Head(S), ok |-> TRUE]
    /\ UNCHANGED <<pushed, popped, S, phase, retired, nalloc>>

DoPush ==
    \E val \in Values :
        /\ TotalSlots(heap) < MaxPush
        /\ LET r == fnPush(heap, q, val) IN
             /\ Len(r.heap) <= MaxNodes
             /\ heap' = r.heap
             /\ q' = r.q
             /\ ret' = Result("Push", r)
             /\ nalloc' = nalloc + (Len(r.heap) - Len(heap))
        /\ pushed' = Append(pushed, val)
        /\ S' = Append(S, val)
        /\ phase' = IF phase = "fill" THEN "fill" ELSE "other"
        /\ UNCHANGED <<popped, sret, retired>>

DoPop ==
    /\ LET r == fnPop(heap, q) IN
         /\ heap' = r.heap
         /\ q' = r.q
         /\ ret' = Result("Pop", r)
         /\ popped' = IF r.ok THEN Append(popped, r.val) ELSE popped
         /\ retired' = IF r.ok /\ r.q.head # q.head
                       THEN retired \cup {q.head}
                       ELSE retired
    /\ sret' = IF S = <<>> THEN [val |-> NilVal, ok |-> FALSE]
               ELSE [val |-> Head(S), ok |-> TRUE]
    /\ S' = IF S = <<>> THEN S ELSE Tail(S)
    /\ phase' = IF phase = "other" THEN "other" ELSE "drain"
    /\ UNCHANGED <<pushed, nalloc>>

Next == DoInit \/ DoLen \/ DoFront \/ DoPush \/ DoPop

Spec == Init /\ [][Next]_vars

\* A client that never calls Init and that calls Pop again and again.
NextNoInit == DoLen \/ DoFront \/ DoPush \/ DoPop

LiveSpec == Init /\ [][NextNoInit]_vars /\ WF_vars(DoPop)

----------------------------------------------------------------------------
\* Measures used by the properties.

\* Number of slots of the slices of the chain starting at node n.
RECURSIVE SlotsOf(_, _)
SlotsOf(h, c) == IF c = <<>> THEN 0 ELSE Len(h[Head(c)].v) + SlotsOf(h, Tail(c))

ChainSlots(h, n) == SlotsOf(h, Chain(h, n))

\* The slots (node, index) of reachable nodes that still hold a value.
HeldSlots(h, qq) ==
    {s \in Reachable(h, qq) \X (1..internalSliceSize) :
        /\ s[2] <= Len(h[s[1]].v)
        /\ h[s[1]].v[s[2]] # NilVal}

\* What a client can tell of a queue: the slices along the chain from head,
\* where tail sits in that chain, pos and len.  Node addresses are left out.
QueueView(h, qq) ==
    LET c == Chain(h, qq.head) IN
    [slices |-> [i \in 1..Len(c) |-> h[c[i]].v],
     tailAt |-> {i \in 1..Len(c) : c[i] = qq.tail},
     pos    |-> qq.pos,
     len    |-> qq.len]

----------------------------------------------------------------------------
\* Properties.

\* C1: FIFO order over a fill-then-drain run.  In a run that, since New or
\* Init, made only Push calls and then only Pop calls, every Pop completes
\* without panic, the values returned with true are the pushed values in
\* push order, and a Pop returns (nil, false) only once all of them have
\* been returned.
C1_FifoFillDrain ==
    (phase = "drain" /\ ret.op = "Pop") =>
        /\ ~ret.panic
        /\ Len(popped) <= Len(pushed)
        /\ popped = SubSeq(pushed, 1, Len(popped))
        /\ ret.ok => ret.val = pushed[Len(popped)]
        /\ ~ret.ok => (ret.val = NilVal /\ Len(popped) = Len(pushed))

\* A drain that returned every value of a fill longer than one slice.
C1_Witness ==
    /\ phase = "drain"
    /\ ret.op = "Pop"
    /\ ret.ok
    /\ Len(pushed) > internalSliceSize
    /\ popped = pushed
    /\ pushed[1] # pushed[2]

\* C2: the queue refines a plain sequence under every interleaving: every
\* Pop and every Front returns the (value, found) result that the same
\* operation returns on the reference sequence S.
C2_RefinesSequence ==
    ret.op \in {"Pop", "Front"} =>
        /\ ~ret.panic
        /\ ret.ok = sret.ok
        /\ ret.val = sret.val

\* C3: Len() equals the number of Push calls minus the number of Pop calls
\* that returned true since the last New/Init, and is never negative.
C3_LenInvariant ==
    /\ fnLen(heap, q).val = Len(pushed) - Len(popped)
    /\ fnLen(heap, q).val >= 0

\* Len() called on a queue that spans two slices, after pushes and pops.
C3_Witness ==
    /\ ret.op = "Len"
    /\ ret.val > 0
    /\ Len(popped) > 0
    /\ q.head # q.tail
    /\ q.head # NilNode

\* C4: totality.  No call panics, and Front and Pop return false only when
\* the queue holds no element.
C4_Totality ==
    /\ ~ret.panic
    /\ (ret.op \in {"Front", "Pop"} /\ ~ret.ok) => Len(pushed) = Len(popped)

\* C5: empty semantics.  A Front or Pop call made while Len() = 0 returns
\* (nil, false) and changes neither the queue struct nor any node.
C5_EmptySemantics ==
    [][(q.len = 0 /\ (DoFront \/ DoPop)) =>
          /\ ret'.val = NilVal
          /\ ~ret'.ok
          /\ ~ret'.panic
          /\ q' = q
          /\ heap' = heap]_vars

\* Pop returned (nil, false) on a queue that was filled and fully drained.
C5_Witness ==
    /\ ret.op = "Pop"
    /\ ~ret.ok
    /\ ~ret.panic
    /\ q.len = 0
    /\ Len(popped) > 0

\* C6: Front is a pure peek.  A Front call made while len > 0 returns
\* (x, true) with x the value at head.v[pos], which is the value the next
\* Pop would return, and changes neither the queue struct nor any node.
C6_FrontPeek ==
    [][(q.len > 0 /\ DoFront) =>
          /\ ret'.ok
          /\ ~ret'.panic
          /\ CanIndexHead(heap, q)
          /\ ret'.val = heap[q.head].v[q.pos + 1]
          /\ ret'.val = fnPop(heap, q).val
          /\ q' = q
          /\ heap' = heap]_vars

\* C7: reinitialization.  Init, called in any state, leaves the queue as New
\* leaves it: head and tail are one freshly allocated node with an empty
\* slice and no next node, pos = 0, len = 0, and no node allocated before
\* the call is reachable from the queue.
C7_Reinit ==
    [][DoInit =>
          /\ q'.head = q'.tail
          /\ q'.head \in DOMAIN heap'
          /\ q'.head \notin DOMAIN heap
          /\ heap'[q'.head] = [v |-> <<>>, n |-> NilNode]
          /\ q'.pos = 0
          /\ q'.len = 0
          /\ Reachable(heap', q') \cap DOMAIN heap = {}
          /\ QueueView(heap', q') = QueueView(New.heap, New.q)]_vars

\* Init was called on a queue that was part way through its second slice.
C7_Witness ==
    /\ ret.op = "Init"
    /\ \E k \in DOMAIN heap :
          /\ heap[k].n # NilNode
          /\ heap[k].v[1] = NilVal
          /\ heap[heap[k].n].v # <<>>

\* C8: reference release.  Every slot of the head node below pos is nil, and
\* the nodes the queue refers to hold no more values than were pushed and
\* not yet popped, so no popped value is still held.
C8_ReferenceRelease ==
    /\ q.head # NilNode =>
          \A i \in 1..q.pos :
              i <= Len(heap[q.head].v) => heap[q.head].v[i] = NilVal
    /\ Cardinality(HeldSlots(heap, q)) <= Len(pushed) - Len(popped)

\* A Pop returned a value from a head node that still holds others.
C8_Witness ==
    /\ ret.op = "Pop"
    /\ ret.ok
    /\ q.pos > 0
    /\ q.len > 0
    /\ q.head # NilNode

\* C9: len equals the number of slots of the slices on the chain starting at
\* head, minus pos.
C9_CountMatchesChain ==
    q.len = ChainSlots(heap, q.head) - q.pos

\* C10: chain shape.  The tail node is reachable from the head node through
\* n links, and the tail node has no next node.
C10_ChainShape ==
    /\ q.tail # NilNode
    /\ q.tail \in ChainSet(heap, q.head)
    /\ heap[q.tail].n = NilNode

\* C11: retired nodes are unreachable.  A node that Pop has advanced head
\* past is referenced neither by head, nor by tail, nor by the n field of a
\* node the queue refers to, in every later state.
C11_RetiredUnreachable ==
    \A k \in retired :
        /\ q.head # k
        /\ q.tail # k
        /\ \A j \in Reachable(heap, q) : heap[j].n # k

\* C12: a retired node is never reused.  No step writes to a node that Pop
\* has retired: neither its slice nor its n field changes.
C12_RetiredNeverWritten ==
    [][\A k \in retired : heap'[k] = heap[k]]_vars

\* C13: read cursor bound.  pos is in [0, internalSliceSize), and whenever
\* len > 0, pos is a valid index into the slice of the head node.
C13_ReadCursorBound ==
    /\ q.pos >= 0
    /\ q.pos < internalSliceSize
    /\ q.len > 0 => CanIndexHead(heap, q)

\* C14: single node invariant.  Whenever head and tail are the same node, the
\* stored elements are the slots pos .. len(v)-1 of that node, in push order,
\* so len = len(head.v) - pos.
C14_SingleNode ==
    q.head = q.tail =>
        /\ q.head # NilNode
        /\ q.len = Len(heap[q.head].v) - q.pos
        /\ SubSeq(heap[q.head].v, q.pos + 1, Len(heap[q.head].v))
              = SubSeq(pushed, Len(popped) + 1, Len(pushed))

\* head and tail are the same node, reached by draining an earlier node, and
\* it holds an element.
C14_Witness ==
    /\ q.head = q.tail
    /\ retired # {}
    /\ q.head \notin retired
    /\ q.len > 0
    /\ Len(pushed) > internalSliceSize

\* C15: node allocation rule.  Push allocates and links a new tail node
\* exactly when the tail's slice already holds internalSliceSize values, and
\* otherwise appends to the tail it has; no slice ever holds more than
\* internalSliceSize slots, and after P >= 1 pushes since the last Init the
\* nodes allocated since (and by) that Init number ceil(P / internalSliceSize).
C15_AllocationRule ==
    [][DoPush =>
          /\ q.tail # NilNode
          /\ (Len(heap') = Len(heap) + 1) <=>
                (Len(heap[q.tail].v) = internalSliceSize)
          /\ Len(heap[q.tail].v) = internalSliceSize =>
                /\ q'.tail = Len(heap) + 1
                /\ heap'[q.tail].n = q'.tail
                /\ heap'[q'.tail].v = <<pushed'[Len(pushed')]>>
          /\ Len(heap[q.tail].v) # internalSliceSize =>
                /\ Len(heap') = Len(heap)
                /\ q'.tail = q.tail
                /\ heap'[q.tail].v
                      = Append(heap[q.tail].v, pushed'[Len(pushed')])
          /\ \A k \in DOMAIN heap' : Len(heap'[k].v) <= internalSliceSize
          /\ nalloc' = (Len(pushed') + internalSliceSize - 1)
                          \div internalSliceSize]_vars

\* Push has just allocated a second node in a run with an earlier Pop.
C15_Witness ==
    /\ ret.op = "Push"
    /\ nalloc >= 2
    /\ Len(popped) > 0
    /\ q.tail = Len(heap)
    /\ Len(heap[q.tail].v) = 1

C17_PushFrame ==
    [][DoPush =>
          /\ q'.head = q.head
          /\ q'.pos = q.pos
          /\ q'.len = q.len + 1
          /\ q.tail # NilNode
          /\ \A k \in DOMAIN heap :
                /\ k # q.tail => heap'[k] = heap[k]
                /\ Len(heap'[k].v) >= Len(heap[k].v)
                /\ \A i \in 1..Len(heap[k].v) : heap'[k].v[i] = heap[k].v[i]
          /\ TotalSlots(heap') = TotalSlots(heap) + 1
          /\ q'.tail \in DOMAIN heap'
          /\ heap'[q'.tail].v # <<>>
          /\ heap'[q'.tail].v[Len(heap'[q'.tail].v)] = pushed'[Len(pushed')]
          /\ heap'[q'.tail].n = NilNode
          /\ \/ /\ q'.tail = q.tail
                /\ heap' = [heap EXCEPT ![q.tail].v =
                               Append(@, pushed'[Len(pushed')])]
             \/ /\ q'.tail = Len(heap) + 1
                /\ Len(heap') = Len(heap) + 1
                /\ heap'[q.tail] = [heap[q.tail] EXCEPT !.n = q'.tail]]_vars

\* Push has just allocated a node while head was part way through its slice.
C17_Witness ==
    /\ ret.op = "Push"
    /\ q.head # NilNode
    /\ q.pos > 0
    /\ q.tail # q.head
    /\ heap[q.head].n = q.tail
    /\ Len(heap[q.tail].v) = 1

\* C18: head is always a node.  In every reachable state the head field
\* refers to an allocated node and is never nil.
C18_HeadLive ==
    /\ q.head # NilNode
    /\ q.head \in DOMAIN heap

\* C19: every pushed value is eventually delivered.  In a run without Init
\* in which Pop is called again and again, the i-th value passed to Push is
\* eventually the i-th value returned by Pop with true, no Pop returns a
\* value twice or out of turn, and the queue is empty again and again.
C19_EventuallyDelivered ==
    /\ \A i \in 1..MaxPush :
          (Len(pushed) >= i) ~> (Len(popped) >= i /\ popped[i] = pushed[i])
    /\ [](Len(popped) <= Len(pushed)
            /\ popped = SubSeq(pushed, 1, Len(popped)))
    /\ []<>(q.len = 0)

====
